---- MODULE Spec2Model ----
(***************************************************************************)
(* The "hero" resource governor of genesis (src/commands/hero.py):         *)
(* find_targets, _terminate_process_tree and run, executed against an OS   *)
(* process table that other processes change concurrently.                 *)
(*                                                                         *)
(* Process names are sequences of one-character strings, so that strip()   *)
(* and the bracket test of _is_safe_process are computed, not assumed.     *)
(* Memory is in whole megabytes and CPU in whole percent.                  *)
(***************************************************************************)
EXTENDS Integers, Sequences, FiniteSets, TLC

\* ---------------------------------------------------------------- bounds
\* Highest pid of the modelled machine (pids 1..MaxPid).
MaxPid == 5
\* Number of spontaneous process-table events (exit, exec/rename, spawn)
\* that other processes cause during one run of the governor.
MaxEnv == 1
\* Number of processes, besides init and the governor, that are running when
\* a whole run() starts.
MaxRunProcs == 2
\* Number of processes, besides init and the governor, in the tables
\* find_targets is called on alone.
MaxFindProcs == 2
\* Longest process name the OS reports (NAME_MAX of the file systems a program
\* is loaded from; comm names are far shorter).
MaxNameLen == 255

\* ------------------------------------------------------ program constants
\* pid of init, and the pid os.getpid() returned when the module was loaded.
InitPid == 1
SelfPid == 2
ALWAYS_SAFE_PIDS == {InitPid, SelfPid}
\* cmdline[:300]
CmdlineMax == 300

SAFE_PROC_NAMES == {
    <<"p","l","a","s","m","a","s","h","e","l","l">>,
    <<"k","w","i","n","_","x","1","1">>,
    <<"k","w","i","n","_","w","a","y","l","a","n","d">>,
    <<"X","o","r","g">>,
    <<"X","w","a","y","l","a","n","d">>,
    <<"g","n","o","m","e","-","s","h","e","l","l">>,
    <<"s","d","d","m">>,
    <<"g","d","m">>,
    <<"s","y","s","t","e","m","d">>,
    <<"s","y","s","t","e","m","d","-","l","o","g","i","n","d">>,
    <<"p","i","p","e","w","i","r","e">>,
    <<"w","i","r","e","p","l","u","m","b","e","r">>,
    <<"p","u","l","s","e","a","u","d","i","o">>,
    <<"N","e","t","w","o","r","k","M","a","n","a","g","e","r">>,
    <<"w","p","a","_","s","u","p","p","l","i","c","a","n","t">>,
    <<"d","h","c","p","c","d">>,
    <<"c","h","r","o","n","y","d">>,
    <<"s","y","s","t","e","m","d","-","r","e","s","o","l","v","e","d">>,
    <<"d","b","u","s","-","d","a","e","m","o","n">>,
    <<"p","o","l","k","i","t","d">>,
    <<"u","d","i","s","k","s","d">>,
    <<"u","p","o","w","e","r","d">>,
    <<"b","l","u","e","t","o","o","t","h","d">>,
    <<"c","u","p","s","d">>,
    <<"a","v","a","h","i","-","d","a","e","m","o","n">>,
    <<"z","s","h">>,
    <<"b","a","s","h">>,
    <<"f","i","s","h">>,
    <<"s","h">>,
    <<"p","y","t","h","o","n">>,
    <<"p","y","t","h","o","n","3">>,
    <<"p","e","r","l">>,
    <<"r","u","b","y">>,
    <<"k","d","e","d","5">>,
    <<"k","s","m","s","e","r","v","e","r">>,
    <<"k","d","e","i","n","i","t","5">>,
    <<"k","d","e","i","n","i","t","6">>,
    <<"k","g","l","o","b","a","l","a","c","c","e","l","5">>,
    <<"k","g","l","o","b","a","l","a","c","c","e","l">>,
    <<"g","e","n","e","s","i","s">>,
    <<"e","x","p","l","o","r","e","r",".","e","x","e">>,
    <<"t","a","s","k","m","g","r",".","e","x","e">>,
    <<"c","s","r","s","s",".","e","x","e">>,
    <<"l","s","a","s","s",".","e","x","e">>,
    <<"w","i","n","l","o","g","o","n",".","e","x","e">>,
    <<"d","w","m",".","e","x","e">>,
    <<"s","v","c","h","o","s","t",".","e","x","e">>,
    <<"s","e","r","v","i","c","e","s",".","e","x","e">>,
    <<"w","i","n","i","n","i","t",".","e","x","e">>,
    <<"s","m","s","s",".","e","x","e">>,
    <<"s","p","o","o","l","s","v",".","e","x","e">>,
    <<"R","e","g","i","s","t","r","y">>,
    <<"S","y","s","t","e","m">>
}

N_app   == <<"a","p","p">>
N_bash  == <<"b","a","s","h">>

\* The user getpass.getuser() reports, and another account of the machine.
current_user == "me"
other_user   == "root"

Pids     == 1..MaxPid
UserPids == Pids \ ALWAYS_SAFE_PIDS

\* ------------------------------------------------------------------ state
VARIABLES
  ptable,           \* the OS process table: live pid -> [name, username, ppid, gen, rss_mb, cpu, hidden, cmdline]
  envLeft,          \* spontaneous process-table events still allowed
  args,             \* the arguments of run(): dry_run, scope, mem_threshold_mb, cpu_threshold, limit, verbose, fast
  pc,               \* control point of the governor ("crashed": an exception escaped)
  listing,          \* find_targets: the handles psutil.process_iter yielded
  candidate_procs,  \* find_targets: the handles collected by the first loop
  alive_procs,      \* _sample_cpu_usage: the handles primed successfully
  cpu_map,          \* _sample_cpu_usage: pid -> measured CPU percent
  sleeps,           \* number of time.sleep() calls made
  pending,          \* find_targets: the arguments of Target(...) evaluated before the command lines are read
  targets,          \* find_targets: targets, and the list it returned
  confirm,          \* the confirmation collaborator: [asked, answer]
  ti,               \* run: index of the Target the loop is at
  terminated_count, \* run: the tally
  output,           \* run: the per-target lines printed
  retcode,          \* run: the value returned (-1 while running)
  processed,        \* run: what the loop did with each Target so far: [pid, how]
  tproc,            \* _terminate_process_tree: the handle psutil.Process(pid) gave
  children,         \* _terminate_process_tree: proc.children(recursive=True)
  alive,            \* _terminate_process_tree: the second list wait_procs returned
  ret,              \* _terminate_process_tree: the tuple returned
  signals,          \* the signals the current call delivered, in order: [pid, gen, name, kind, role]
  delivered,        \* every signal the governor has delivered so far
  calls,            \* number of calls of _terminate_process_tree
  tree,             \* parent of every descendant, as enumerated by the current call
  gone,             \* handles wait_procs reported gone after the graceful wait
  sig_failed,       \* handles for which issuing a signal raised AccessDenied in the current call
  kill_tried,       \* handles on which the current call invoked kill()
  still_alive       \* Targets some process of whose tree outlived the forced-kill wait

vars == <<ptable, envLeft, args, pc, listing, candidate_procs, alive_procs, cpu_map, sleeps,
          pending, targets, confirm, ti, terminated_count, output, retcode, processed,
          tproc, children,
          alive, ret, signals, delivered, calls, tree, gone, sig_failed, kill_tried, still_alive>>

findVars == <<listing, candidate_procs, alive_procs, cpu_map, sleeps, pending, targets>>
runVars  == <<confirm, ti, terminated_count, output, retcode, processed>>
termVars == <<tproc, children, alive, ret, signals, delivered, calls, tree, gone, sig_failed,
             kill_tried, still_alive>>

\* ------------------------------------------------- the process table (psutil)
Exists(p) == p \in DOMAIN ptable

\* A psutil.Process is a pid together with the creation time of the process.
Handle(p) == [pid |-> p, gen |-> ptable[p].gen]
NoHandle  == [pid |-> 0, gen |-> 0]

\* Process.is_running(): the pid is live and still the process the handle was made for.
IsRunning(h) == Exists(h.pid) /\ ptable[h.pid].gen = h.gen

RECURSIVE AscSeq(_)
AscSeq(S) ==
  IF S = {} THEN <<>>
  ELSE LET m == CHOOSE x \in S : \A y \in S : x <= y
       IN  <<m>> \o AscSeq(S \ {m})

\* psutil.process_iter(): one handle per live pid, in ascending pid order.
ProcessIter == [i \in 1..Cardinality(DOMAIN ptable) |-> Handle(AscSeq(DOMAIN ptable)[i])]

SeqToSet(s) == {s[i] : i \in 1..Len(s)}

\* ------------------------------------------------------------ str helpers
IsWhite(c) == c \in {" ", "\t", "\n", "\r"}

RECURSIVE LStrip(_)
LStrip(s) == IF s # <<>> /\ IsWhite(Head(s)) THEN LStrip(Tail(s)) ELSE s

RECURSIVE RStrip(_)
RStrip(s) == IF s # <<>> /\ IsWhite(s[Len(s)]) THEN RStrip(SubSeq(s, 1, Len(s) - 1)) ELSE s

\* str.strip()
Strip(s) == RStrip(LStrip(s))

\* The string of n characters c.
Repeat(c, n) == [i \in 1..n |-> c]

\* " ".join(parts)
RECURSIVE Join(_)
Join(parts) ==
  IF parts = <<>> THEN <<>>
  ELSE IF Len(parts) = 1 THEN parts[1]
  ELSE parts[1] \o <<" ">> \o Join(Tail(parts))

\* s[:n], n >= 0
Take(s, n) == SubSeq(s, 1, IF n < Len(s) THEN n ELSE Len(s))

\* name.startswith("[") and name.endswith("]")
IsBracketed(name) == name # <<>> /\ Head(name) = "[" /\ name[Len(name)] = "]"

\* ------------------------------------------------------------- exceptions
\* What a query of the process with pid p (name(), username(), memory_info(),
\* cmdline(), cpu_percent()) raises: NoSuchProcess when no process has the pid,
\* AccessDenied when the OS hides the process from the governor.
ReadRaises(p) ==
  IF ~Exists(p) THEN "NoSuchProcess"
  ELSE IF ptable[p].hidden THEN "AccessDenied"
  ELSE "none"

\* The except clauses, by the try block they close.
Except_get_memory_mb    == {"NoSuchProcess", "AccessDenied"}
Except_get_cmdline      == {"NoSuchProcess", "AccessDenied"}
Except_is_safe_process  == {"NoSuchProcess", "AccessDenied"}
Except_prime            == {"NoSuchProcess", "AccessDenied"}
\* A mutant: the second loop of the sampler tolerates a vanished process only.
Except_measure_NoAccessDenied == {"NoSuchProcess"}

Except_measure          == {"NoSuchProcess", "AccessDenied"}
Except_collect          == {"NoSuchProcess", "AccessDenied"}
Except_build            == {"NoSuchProcess", "AccessDenied"}
Except_resolve          == {"NoSuchProcess"}
Except_children         == {"NoSuchProcess", "AccessDenied"}
\* A mutant: the graceful loop tolerates a vanished descendant only.
Except_terminate_child_NoAccessDenied == {"NoSuchProcess"}

Except_terminate_child  == {"NoSuchProcess", "AccessDenied"}
Except_terminate        == {"NoSuchProcess", "AccessDenied"}
Except_kill             == {"NoSuchProcess", "AccessDenied"}

\* Does one of the exceptions raised get past the clause?
Escapes(raised, caught) == (raised \ {"none"}) \ caught # {}

\* ------------------------------------------------------- _is_safe_process
\* A mutant: the name list is not consulted.
IsSafeProcess_PidOnly(h) ==
  IF h.pid \in ALWAYS_SAFE_PIDS THEN TRUE
  ELSE IF ReadRaises(h.pid) # "none" THEN ReadRaises(h.pid) \in Except_is_safe_process
  ELSE IsBracketed(Strip(ptable[h.pid].name))

\* A mutant: when the name cannot be read the process is not protected.
IsSafeProcess_FailOpen(h) ==
  IF h.pid \in ALWAYS_SAFE_PIDS THEN TRUE
  ELSE IF ReadRaises(h.pid) # "none" THEN FALSE
  ELSE LET name == Strip(ptable[h.pid].name)
       IN  \/ name \in SAFE_PROC_NAMES
           \/ IsBracketed(name)

\* A mutant: the name is compared as read, without strip().
IsSafeProcess_NoStrip(h) ==
  IF h.pid \in ALWAYS_SAFE_PIDS THEN TRUE
  ELSE IF ReadRaises(h.pid) # "none" THEN ReadRaises(h.pid) \in Except_is_safe_process
  ELSE LET name == ptable[h.pid].name
       IN  \/ name \in SAFE_PROC_NAMES
           \/ IsBracketed(name)

\* (When proc.name() raises something the clause does not list, the call does
\* not return: the exception goes on to the caller.)
IsSafeProcess(h) ==
  IF h.pid \in ALWAYS_SAFE_PIDS THEN TRUE
  ELSE IF ReadRaises(h.pid) # "none" THEN ReadRaises(h.pid) \in Except_is_safe_process
  ELSE LET name == Strip(ptable[h.pid].name)
       IN  \/ name \in SAFE_PROC_NAMES
           \/ IsBracketed(name)

\* ------------------------------------------------------------ find_targets
\* Did the call _is_safe_process(proc) return (rather than let an exception
\* of proc.name() through to the loop)?
ClassifierReturns(h) ==
  \/ h.pid \in ALWAYS_SAFE_PIDS
  \/ ReadRaises(h.pid) \in {"none"} \cup Except_is_safe_process

\* A mutant: the scope is not consulted.
IsCandidate_NoScope(h) ==
  /\ ClassifierReturns(h)
  /\ ~IsSafeProcess(h)

\* The body of the first loop: is the process appended to candidate_procs?
\* proc.username() is called under scope "user" only.
IsCandidate(h) ==
  /\ ClassifierReturns(h)
  /\ ~IsSafeProcess(h)
  /\ args.scope = "user" =>
       (ReadRaises(h.pid) = "none" /\ ptable[h.pid].username = current_user)

\* The exceptions that reach the try block of the first loop: those of
\* proc.name() that _is_safe_process lets through, and those of proc.username().
CollectRaised ==
  {ReadRaises(h.pid) : h \in {k \in SeqToSet(listing) : ~ClassifierReturns(k)}} \cup
  {ReadRaises(h.pid) : h \in {k \in SeqToSet(listing) :
                                ClassifierReturns(k) /\ ~IsSafeProcess(k) /\ args.scope = "user"}}

\* A mutant: the sampler runs in fast mode too.
AfterCollect_AlwaysSample == "ft_prime"

\* if not fast: cpu_map = _sample_cpu_usage(candidate_procs)
AfterCollect == IF args.fast THEN "ft_build" ELSE "ft_prime"

\* for proc in psutil.process_iter([...]): the pids are listed, one handle each.
FT_List ==
  /\ pc = "ft_list"
  /\ listing' = ProcessIter
  /\ pc' = "ft_collect"
  /\ UNCHANGED <<pending, ptable, envLeft, args, candidate_procs, alive_procs, cpu_map, sleeps, targets>>
  /\ UNCHANGED runVars
  /\ UNCHANGED termVars

\* The first loop, over the handles listed: a process may have exited or
\* changed since it was listed.
FT_Collect ==
  /\ pc = "ft_collect"
  /\ candidate_procs' = SelectSeq(listing, IsCandidate)
  /\ pc' = IF Escapes(CollectRaised, Except_collect) THEN "crashed" ELSE AfterCollect
  /\ UNCHANGED <<pending, ptable, envLeft, args, listing, alive_procs, cpu_map, sleeps, targets>>
  /\ UNCHANGED runVars
  /\ UNCHANGED termVars

\* The exceptions the queries of the handles hs raise.
RaisedBy(hs) == {ReadRaises(hs[i].pid) : i \in DOMAIN hs}

\* _sample_cpu_usage, first loop: a handle whose cpu_percent(None) raises is
\* not appended to alive_procs.
FT_Prime ==
  /\ pc = "ft_prime"
  /\ alive_procs' = SelectSeq(candidate_procs, LAMBDA h : ReadRaises(h.pid) = "none")
  /\ pc' = IF Escapes(RaisedBy(candidate_procs), Except_prime) THEN "crashed" ELSE "ft_sleep"
  /\ UNCHANGED <<pending, ptable, envLeft, args, listing, candidate_procs, cpu_map, sleeps, targets>>
  /\ UNCHANGED runVars
  /\ UNCHANGED termVars

\* A mutant: one timing window per candidate.
SleepsFor_PerProc(procs) == Len(procs)

\* The number of time.sleep() calls _sample_cpu_usage makes for a batch.
SleepsFor(procs) == 1

\* _sample_cpu_usage: time.sleep(sleep_duration)
FT_Sleep ==
  /\ pc = "ft_sleep"
  /\ sleeps' = sleeps + SleepsFor(candidate_procs)
  /\ pc' = "ft_measure"
  /\ UNCHANGED <<pending, ptable, envLeft, args, listing, candidate_procs, alive_procs, cpu_map, targets>>
  /\ UNCHANGED runVars
  /\ UNCHANGED termVars

\* _sample_cpu_usage, second loop: the load of the process over the interval,
\* or 0.0 for a pid that is gone.
MeasureCpu(p) == IF ReadRaises(p) = "none" THEN ptable[p].cpu ELSE 0

FT_Measure ==
  /\ pc = "ft_measure"
  /\ cpu_map' = [p \in {h.pid : h \in SeqToSet(alive_procs)} |-> MeasureCpu(p)]
  /\ pc' = IF Escapes(RaisedBy(alive_procs), Except_measure) THEN "crashed" ELSE "ft_build"
  /\ UNCHANGED <<pending, ptable, envLeft, args, listing, candidate_procs, alive_procs, sleeps, targets>>
  /\ UNCHANGED runVars
  /\ UNCHANGED termVars

\* cpu = 0.0 if fast else cpu_map.get(proc.pid, 0.0)
CpuOf(h) ==
  IF args.fast THEN 0
  ELSE IF h.pid \in DOMAIN cpu_map THEN cpu_map[h.pid] ELSE 0

\* _get_memory_mb: 0.0 when memory_info() raises what the clause lists.
GetMemoryMb(h) == IF ReadRaises(h.pid) = "none" THEN ptable[h.pid].rss_mb ELSE 0

\* A mutant: the comparisons are strict.
Qualifies_Strict(rss, cpu) == rss > args.mem_threshold_mb \/ cpu > args.cpu_threshold

\* rss >= mem_threshold_mb or cpu >= cpu_threshold
Qualifies(rss, cpu) == rss >= args.mem_threshold_mb \/ cpu >= args.cpu_threshold

\* proc.name() or "?"
OrDefault(s) == IF s = <<>> THEN <<"?">> ELSE s

\* Target(pid=..., name=proc.name() or "?", username=proc.username() or "?",
\*        rss_mb=rss, cpu=cpu, ...): the arguments evaluated before the last,
\* cmdline=_get_cmdline(proc).
MakeTarget(h) ==
  [pid      |-> h.pid,
   name     |-> OrDefault(ptable[h.pid].name),
   username |-> IF ptable[h.pid].username = "" THEN "?" ELSE ptable[h.pid].username,
   rss_mb   |-> GetMemoryMb(h),
   cpu      |-> CpuOf(h)]

\* One pass of the second loop: a Target is appended ("target"), nothing is
\* ("skip": below the thresholds, or a query raised and the loop's clause
\* caught it), or an exception leaves find_targets ("raise").
BuildOutcome(h) ==
  LET e == ReadRaises(h.pid) IN
  IF e = "none"
  THEN IF Qualifies(GetMemoryMb(h), CpuOf(h)) THEN "target" ELSE "skip"
  ELSE IF e \notin Except_get_memory_mb
       THEN IF e \in Except_build THEN "skip" ELSE "raise"
       ELSE IF ~Qualifies(0, CpuOf(h)) THEN "skip"      \* no further query is made
            ELSE IF e \in Except_build THEN "skip" ELSE "raise"

RECURSIVE BuildTargets(_)
BuildTargets(cands) ==
  IF cands = <<>> THEN <<>>
  ELSE LET h == Head(cands)
           rest == BuildTargets(Tail(cands))
       IN  IF BuildOutcome(h) = "target"
           THEN <<MakeTarget(h)>> \o rest
           ELSE rest

\* A mutant: the two weights are exchanged.
ScoreX2_Swapped(t) == t.cpu + 4 * t.rss_mb

\* Target.score(), doubled to stay in the integers: 2 * (cpu * 2.0 + rss_mb * 0.5)
ScoreX2(t) == 4 * t.cpu + t.rss_mb

\* A mutant: an element is put before the elements of equal score.
RECURSIVE InsertByScore_Unstable(_, _)
InsertByScore_Unstable(s, t) ==
  IF s = <<>> THEN <<t>>
  ELSE IF ScoreX2(Head(s)) > ScoreX2(t)
       THEN <<Head(s)>> \o InsertByScore_Unstable(Tail(s), t)
       ELSE <<t>> \o s

\* list.sort(key=score, reverse=True): stable, equal scores keep their order.
RECURSIVE InsertByScore(_, _)
InsertByScore(s, t) ==
  IF s = <<>> THEN <<t>>
  ELSE IF ScoreX2(Head(s)) >= ScoreX2(t)
       THEN <<Head(s)>> \o InsertByScore(Tail(s), t)
       ELSE <<t>> \o s

RECURSIVE SortByScore(_)
SortByScore(s) ==
  IF s = <<>> THEN <<>>
  ELSE InsertByScore(SortByScore(SubSeq(s, 1, Len(s) - 1)), s[Len(s)])

\* A mutant: the slice keeps the end of the list.
SliceTo_Tail(s, limit) ==
  IF limit >= 0
  THEN SubSeq(s, (IF limit < Len(s) THEN Len(s) - limit ELSE 0) + 1, Len(s))
  ELSE SubSeq(s, 1, IF Len(s) + limit > 0 THEN Len(s) + limit ELSE 0)

\* targets[:limit], as Python slices: a negative limit counts from the end.
SliceTo(s, limit) ==
  IF limit >= 0
  THEN SubSeq(s, 1, IF limit < Len(s) THEN limit ELSE Len(s))
  ELSE SubSeq(s, 1, IF Len(s) + limit > 0 THEN Len(s) + limit ELSE 0)

\* A mutant: the joined command line is not cut.
Truncate_Off(c) == c

\* cmdline[:300]
Truncate(c) == Take(c, CmdlineMax)

\* _get_cmdline(proc) when no query raises: the joined arguments, cut, or the
\* name when they are empty.  The handle is not checked: the pid's holder is read.
CmdlineText(pid) ==
  LET cmdline == Join(ptable[pid].cmdline)
  IN  IF cmdline # <<>> THEN Truncate(cmdline) ELSE ptable[pid].name

\* What _get_cmdline(proc) returns: "" when a query raises what its clause lists.
GetCmdline(pid) == IF ReadRaises(pid) = "none" THEN CmdlineText(pid) ELSE <<>>

\* The exception that leaves _get_cmdline(proc), "none" when it returns.
CmdlineRaises(pid) ==
  IF ReadRaises(pid) \in Except_get_cmdline THEN "none" ELSE ReadRaises(pid)

\* The dataclass Target, from the arguments evaluated first and the command line.
Target(a, cmdline) ==
  [pid |-> a.pid, name |-> a.name, username |-> a.username, rss_mb |-> a.rss_mb,
   cpu |-> a.cpu, cmdline |-> cmdline]

\* The Targets appended, given the argument records as: a process whose
\* command-line read raises past _get_cmdline is dropped by the loop's clause.
RECURSIVE WithCmdlines(_)
WithCmdlines(as) ==
  IF as = <<>> THEN <<>>
  ELSE LET a == Head(as)
           rest == WithCmdlines(Tail(as))
       IN  IF CmdlineRaises(a.pid) = "none"
           THEN <<Target(a, GetCmdline(a.pid))>> \o rest
           ELSE rest

\* The second loop, up to the last argument of Target(...): pending holds the
\* arguments of the qualifying processes in enumeration order.  (The reads of
\* one process are in program order; those of different processes do not
\* depend on each other, so the command lines are read in a step of their own.)
FT_Build ==
  /\ pc = "ft_build"
  /\ pending' = BuildTargets(candidate_procs)
  /\ pc' = IF \E i \in DOMAIN candidate_procs : BuildOutcome(candidate_procs[i]) = "raise"
           THEN "crashed" ELSE "ft_cmdline"
  /\ UNCHANGED <<ptable, envLeft, args, listing, candidate_procs, alive_procs, cpu_map, sleeps,
                 targets>>
  /\ UNCHANGED runVars
  /\ UNCHANGED termVars

\* cmdline=_get_cmdline(proc), and targets.append(Target(...)).
FT_Cmdline ==
  /\ pc = "ft_cmdline"
  /\ targets' = WithCmdlines(pending)
  /\ pc' = IF Escapes({CmdlineRaises(pending[i].pid) : i \in DOMAIN pending}, Except_build)
           THEN "crashed" ELSE "ft_sort"
  /\ UNCHANGED <<ptable, envLeft, args, listing, candidate_procs, alive_procs, cpu_map, sleeps,
                 pending>>
  /\ UNCHANGED runVars
  /\ UNCHANGED termVars

\* targets.sort(key=lambda t: t.score(), reverse=True); return targets[:limit]
\* A mutant: ranking already sends SIGTERM to the Targets it returns.
FT_Sort_Signals ==
  /\ pc = "ft_sort"
  /\ targets' = SliceTo(SortByScore(targets), args.limit)
  /\ pc' = "ft_return"
  /\ delivered' = delivered \cup
       {[pid |-> targets[i].pid, gen |-> ptable[targets[i].pid].gen, name |-> targets[i].name,
         kind |-> "TERM", role |-> "target"] :
          i \in {k \in DOMAIN targets : Exists(targets[k].pid)}}
  /\ UNCHANGED <<pending, ptable, envLeft, args, listing, candidate_procs, alive_procs, cpu_map, sleeps>>
  /\ UNCHANGED runVars
  /\ UNCHANGED <<tproc, children, alive, ret, signals, calls, tree, gone, sig_failed,
                 kill_tried, still_alive>>

FT_Sort ==
  /\ pc = "ft_sort"
  /\ targets' = SliceTo(SortByScore(targets), args.limit)
  /\ pc' = "ft_return"
  /\ UNCHANGED <<pending, ptable, envLeft, args, listing, candidate_procs, alive_procs, cpu_map, sleeps>>
  /\ UNCHANGED runVars
  /\ UNCHANGED termVars

\* ------------------------------------------------- _terminate_process_tree
\* The parent of every live process.
PPid == [p \in DOMAIN ptable |-> ptable[p].ppid]

\* The ancestors of p under the parent map pp, following at most n links.
RECURSIVE Anc(_, _, _)
Anc(pp, p, n) ==
  IF n = 0 \/ p \notin DOMAIN pp THEN {}
  ELSE {pp[p]} \cup Anc(pp, pp[p], n - 1)

Descendants(a) == {d \in DOMAIN ptable : a \in Anc(PPid, d, MaxPid)}

Perms(S) == {s \in [1..Cardinality(S) -> S] : \A i, j \in DOMAIN s : i # j => s[i] # s[j]}

\* proc.children(recursive=True): psutil appends the children of a process
\* when it visits that process, so every process precedes its own children.
ChildrenOrders(a) ==
  {s \in Perms(Descendants(a)) :
     \A i, j \in DOMAIN s : s[j] \in Anc(PPid, s[i], MaxPid) => j < i}

\* Process.terminate() / Process.kill(): NoSuchProcess when the handle's process
\* is gone or its pid was reused, AccessDenied when the process belongs to
\* another user (the governor runs unprivileged); both are swallowed.
Raises(h) ==
  IF ~IsRunning(h) THEN "NoSuchProcess"
  ELSE IF ptable[h.pid].username # current_user THEN "AccessDenied"
  ELSE "none"

\* A mutant: the loops signal whatever the pid.
Signalled_NoPidGuard(h) == Raises(h) = "none"

\* if child.pid not in ALWAYS_SAFE_PIDS: child.terminate()
Signalled(h) == h.pid \notin ALWAYS_SAFE_PIDS /\ Raises(h) = "none"

Denied(h) == h.pid \notin ALWAYS_SAFE_PIDS /\ Raises(h) = "AccessDenied"

SignalRec(h, kind, role) ==
  [pid |-> h.pid, gen |-> h.gen, name |-> ptable[h.pid].name,
   kind |-> kind, role |-> role]

\* The two return statements.
AlreadyTerminated == [success |-> TRUE, msg |-> "already terminated"]
Terminated        == [success |-> TRUE, msg |-> "terminated"]
NoResult          == [success |-> FALSE, msg |-> ""]

\* psutil.Process(pid): is there a process to make a handle for?
\* A mutant: the lookup never fails.
Resolves_Always(pid) == TRUE

Resolves(pid) == Exists(pid)

\* try: proc = psutil.Process(pid)  except psutil.NoSuchProcess: return True, "already terminated"
TT_Resolve ==
  /\ pc = "tt_resolve"
  /\ LET pid == targets[ti].pid IN
     IF ~Resolves(pid)
     THEN /\ ret' = AlreadyTerminated
          /\ pc' = IF Escapes({"NoSuchProcess"}, Except_resolve) THEN "crashed" ELSE "run_result"
          /\ UNCHANGED tproc
     ELSE /\ tproc' = [pid |-> pid, gen |-> IF Exists(pid) THEN ptable[pid].gen ELSE 0]
          /\ pc' = "tt_children"
          /\ UNCHANGED ret
  /\ UNCHANGED <<ptable, envLeft, args, children, tree, alive, signals, delivered, calls, gone, sig_failed, kill_tried, still_alive>>
  /\ UNCHANGED findVars
  /\ UNCHANGED runVars

\* children = proc.children(recursive=True): NoSuchProcess when the process of
\* the handle is gone or its pid was reused; children then stays [].
TT_Children ==
  /\ pc = "tt_children"
  /\ IF IsRunning(tproc)
     THEN /\ \E order \in ChildrenOrders(tproc.pid) :
               children' = [i \in DOMAIN order |-> Handle(order[i])]
          /\ tree' = [d \in Descendants(tproc.pid) |-> ptable[d].ppid]
          /\ pc' = "tt_terminate"
     ELSE /\ children' = <<>>
          /\ tree' = <<>>
          /\ pc' = IF Escapes({"NoSuchProcess"}, Except_children) THEN "crashed" ELSE "tt_terminate"
  /\ UNCHANGED <<ptable, envLeft, args, tproc, alive, ret, signals, delivered, calls, gone, sig_failed, kill_tried, still_alive>>
  /\ UNCHANGED findVars
  /\ UNCHANGED runVars

\* The handles a loop over hs signals, in the order of hs.
DeliveredIn(hs) == SelectSeq(hs, Signalled)

\* for child in children: ... child.terminate();  proc.terminate()
TT_Terminate ==
  /\ pc = "tt_terminate"
  /\ LET toKids == DeliveredIn(children)
         kidRecs == [i \in DOMAIN toKids |-> SignalRec(toKids[i], "TERM", "child")]
         selfRec == IF Raises(tproc) = "none"
                    THEN <<SignalRec(tproc, "TERM", "target")>> ELSE <<>>
     IN  /\ signals' = signals \o kidRecs \o selfRec
         /\ delivered' = delivered \cup SeqToSet(kidRecs \o selfRec)
  /\ sig_failed' = {h \in SeqToSet(children) : Denied(h)}
                     \cup (IF Raises(tproc) = "AccessDenied" THEN {tproc} ELSE {})
  /\ pc' = IF \/ Escapes({Raises(h) : h \in {c \in SeqToSet(children) : c.pid \notin ALWAYS_SAFE_PIDS}},
                          Except_terminate_child)
              \/ Escapes({Raises(tproc)}, Except_terminate)
           THEN "crashed" ELSE "tt_wait"
  /\ UNCHANGED <<ptable, envLeft, args, tproc, children, alive, ret, calls, tree, gone, kill_tried, still_alive>>
  /\ UNCHANGED findVars
  /\ UNCHANGED runVars

\* all_procs = [proc] + children
all_procs == <<tproc>> \o children

\* gone, alive = psutil.wait_procs(all_procs, timeout=graceful_timeout): the call
\* returns when all are gone or the timeout expires; alive comes from a set, in any order.
TT_Wait ==
  /\ pc = "tt_wait"
  /\ gone' = {h \in SeqToSet(all_procs) : ~IsRunning(h)}
  /\ \E order \in Perms({h \in SeqToSet(all_procs) : IsRunning(h)}) : alive' = order
  /\ pc' = "tt_kill"
  /\ UNCHANGED <<ptable, envLeft, args, tproc, children, ret, signals, delivered, calls, tree, sig_failed, kill_tried, still_alive>>
  /\ UNCHANGED findVars
  /\ UNCHANGED runVars

\* The handles the forced-kill loop visits.
\* A mutant: the loop visits all_procs, not only those still alive.
KillList_All == all_procs

KillList == alive

\* for p in alive: ... p.kill();  if alive: (final wait)  else: return True, "terminated"
TT_Kill ==
  /\ pc = "tt_kill"
  /\ LET hit == DeliveredIn(KillList)
         recs == [i \in DOMAIN hit |->
                    SignalRec(hit[i], "KILL", IF hit[i] = tproc THEN "target" ELSE "child")]
     IN  /\ signals' = signals \o recs
         /\ delivered' = delivered \cup SeqToSet(recs)
  /\ sig_failed' = sig_failed \cup {h \in SeqToSet(KillList) : Denied(h)}
  /\ kill_tried' = {h \in SeqToSet(KillList) : h.pid \notin ALWAYS_SAFE_PIDS}
  /\ IF Escapes({Raises(h) : h \in {k \in SeqToSet(KillList) : k.pid \notin ALWAYS_SAFE_PIDS}},
                Except_kill)
     THEN pc' = "crashed" /\ UNCHANGED ret
     ELSE IF alive # <<>>
          THEN pc' = "tt_final_wait" /\ UNCHANGED ret
          ELSE pc' = "run_result" /\ ret' = Terminated
  /\ UNCHANGED <<ptable, envLeft, args, tproc, children, alive, calls, tree, gone, still_alive>>
  /\ UNCHANGED findVars
  /\ UNCHANGED runVars

\* Is the target, or a descendant this call signalled, running?
TreeStillAlive ==
  \/ IsRunning(tproc)
  \/ \E i \in DOMAIN signals :
       IsRunning([pid |-> signals[i].pid, gen |-> signals[i].gen])

\* A mutant: the forced kill is repeated while a process of the tree is running.
AfterFinalWait_Retry == IF TreeStillAlive THEN "tt_kill" ELSE "run_result"

\* What follows the final wait: the return statement.
AfterFinalWait == "run_result"

\* psutil.wait_procs(alive, timeout=1.0);  return True, "terminated"
TT_FinalWait ==
  /\ pc = "tt_final_wait"
  /\ ret' = Terminated
  /\ still_alive' = IF TreeStillAlive THEN still_alive \cup {tproc.pid} ELSE still_alive
  /\ pc' = AfterFinalWait
  /\ UNCHANGED <<ptable, envLeft, args, tproc, children, alive, signals, delivered, calls, tree, gone, sig_failed, kill_tried>>
  /\ UNCHANGED findVars
  /\ UNCHANGED runVars

\* --------------------------------------------------------------------- run
\* run() calls find_targets.
Run_Start ==
  /\ pc = "run_start"
  /\ pc' = "ft_list"
  /\ UNCHANGED <<ptable, envLeft, args>>
  /\ UNCHANGED findVars
  /\ UNCHANGED runVars
  /\ UNCHANGED termVars

\* Where run() goes once the targets are displayed.
\* A mutant: dry_run is not consulted.
AfterDisplay_NoDryRun == IF args.verbose THEN "run_confirm" ELSE "run_loop"

AfterDisplay ==
  IF args.dry_run THEN "done"
  ELSE IF args.verbose THEN "run_confirm"
  ELSE "run_loop"

\* A mutant: declining the confirmation is reported as a failure.
ReturnCode_DeclinedFails(path) == IF path = "declined" THEN 1 ELSE 0

\* The value of the return statement that ends the given path of run().
ReturnCode(path) == 0

\* if not targets: return 0 ... if dry_run: return 0 ... if verbose: (ask)
Run_Check ==
  /\ pc = "ft_return"
  /\ pc' = IF targets = <<>> THEN "done" ELSE AfterDisplay
  /\ retcode' = IF pc' # "done" THEN retcode
                ELSE IF targets = <<>> THEN ReturnCode("empty") ELSE ReturnCode("dry_run")
  /\ UNCHANGED <<ptable, envLeft, args, confirm, ti, terminated_count, output, processed>>
  /\ UNCHANGED findVars
  /\ UNCHANGED termVars

\* questionary.confirm(...).ask(): the collaborator answers yes or no.
Run_Confirm ==
  /\ pc = "run_confirm"
  /\ \E answer \in BOOLEAN :
       /\ confirm' = [asked |-> TRUE, answer |-> answer]
       /\ pc' = IF answer THEN "run_loop" ELSE "done"
       /\ retcode' = IF answer THEN retcode ELSE ReturnCode("declined")
  /\ UNCHANGED <<ptable, envLeft, args, ti, terminated_count, output, processed>>
  /\ UNCHANGED findVars
  /\ UNCHANGED termVars

\* A mutant: the double check looks at the pid only.
IsProtectedTarget_PidOnly(t) == t.pid \in ALWAYS_SAFE_PIDS

\* if t.name in SAFE_PROC_NAMES or t.pid in ALWAYS_SAFE_PIDS
IsProtectedTarget(t) == t.name \in SAFE_PROC_NAMES \/ t.pid \in ALWAYS_SAFE_PIDS

Line(kind, t, msg) == [kind |-> kind, pid |-> t.pid, msg |-> msg]

Emit(line) == IF args.verbose THEN Append(output, line) ELSE output

\* The loop is over: the summary is printed and run() returns 0.
Run_Finish ==
  /\ pc = "run_loop"
  /\ ti > Len(targets)
  /\ pc' = "done"
  /\ retcode' = ReturnCode("loop")
  /\ UNCHANGED <<ptable, envLeft, args, confirm, ti, terminated_count, output, processed>>
  /\ UNCHANGED findVars
  /\ UNCHANGED termVars

\* The double check: a protected Target is skipped.
Run_Skip ==
  /\ pc = "run_loop"
  /\ ti <= Len(targets)
  /\ IsProtectedTarget(targets[ti])
  /\ output' = Emit(Line("skip", targets[ti], "protected process"))
  /\ processed' = Append(processed, [pid |-> targets[ti].pid, how |-> "skipped"])
  /\ ti' = ti + 1
  /\ UNCHANGED <<ptable, envLeft, args, pc, confirm, terminated_count, retcode>>
  /\ UNCHANGED findVars
  /\ UNCHANGED termVars

\* success, msg = _terminate_process_tree(t.pid)
Run_Call ==
  /\ pc = "run_loop"
  /\ ti <= Len(targets)
  /\ ~IsProtectedTarget(targets[ti])
  /\ calls' = calls + 1
  /\ pc' = "tt_resolve"
  /\ UNCHANGED <<ptable, envLeft, args, tproc, children, alive, ret, signals, delivered,
                 tree, gone, sig_failed, kill_tried, still_alive>>
  /\ UNCHANGED findVars
  /\ UNCHANGED <<confirm, ti, terminated_count, output, retcode>>
  /\ processed' = Append(processed, [pid |-> targets[ti].pid, how |-> "called"])

\* A mutant: the loop is left when a Target had already terminated.
AfterResult_StopWhenGone == IF ret = AlreadyTerminated THEN "done" ELSE "run_loop"

\* Where run() goes once a call has returned and is tallied: the next pass of the loop.
AfterResult == "run_loop"

\* if success: terminated_count += 1; print a success line  else: print a failure line
\* (the locals of the call that returned are gone)
Run_Result ==
  /\ pc = "run_result"
  /\ terminated_count' = IF ret.success THEN terminated_count + 1 ELSE terminated_count
  /\ output' = Emit(Line(IF ret.success THEN "ok" ELSE "fail", targets[ti], ret.msg))
  /\ ti' = ti + 1
  /\ pc' = AfterResult
  /\ tproc' = NoHandle
  /\ children' = <<>>
  /\ alive' = <<>>
  /\ gone' = {}
  /\ sig_failed' = {}
  /\ kill_tried' = {}
  /\ tree' = <<>>
  /\ ret' = NoResult
  /\ signals' = <<>>
  /\ UNCHANGED <<ptable, envLeft, args, confirm, retcode, processed, delivered, calls,
                 still_alive>>
  /\ UNCHANGED findVars

\* ------------------------------------------------- the rest of the machine
\* The table without process p; its children are re-parented to init.
Without(p) ==
  [q \in DOMAIN ptable \ {p} |->
     IF ptable[q].ppid = p THEN [ptable[q] EXCEPT !.ppid = InitPid] ELSE ptable[q]]

\* The table matters to the governor only where it reads it or signals: a
\* change made before any other step is the same change made just before the
\* next of these.
Busy == pc \in {"ft_collect", "ft_prime", "ft_measure", "ft_build", "ft_cmdline", "tt_resolve", "tt_children", "tt_terminate",
                "tt_wait", "tt_kill", "tt_final_wait"}

GotSignal(p) == \E s \in delivered : s.pid = p /\ s.gen = ptable[p].gen

\* A process the governor signalled exits while the governor waits for it.
ProcDies(p) ==
  /\ pc \in {"tt_wait", "tt_final_wait"}
  /\ Exists(p)
  /\ GotSignal(p)
  /\ ptable' = Without(p)
  /\ UNCHANGED <<envLeft, args, pc>>
  /\ UNCHANGED findVars
  /\ UNCHANGED runVars
  /\ UNCHANGED termVars

\* A process exits on its own.
EnvExit(p) ==
  /\ Busy
  /\ envLeft > 0
  /\ Exists(p)
  /\ ptable' = Without(p)
  /\ envLeft' = envLeft - 1
  /\ UNCHANGED <<args, pc>>
  /\ UNCHANGED findVars
  /\ UNCHANGED runVars
  /\ UNCHANGED termVars

EnvNames == {N_app, N_bash}

\* The argument vector of a program started under the name n with one option.
Argv(n) == <<n, <<"-", "v">>>>

\* A process changes its name (prctl; the argument vector stays).
EnvRename(p, n) ==
  /\ Busy
  /\ envLeft > 0
  /\ Exists(p)
  /\ ptable[p].name # n
  /\ ptable' = [ptable EXCEPT ![p].name = n]
  /\ envLeft' = envLeft - 1
  /\ UNCHANGED <<args, pc>>
  /\ UNCHANGED findVars
  /\ UNCHANGED runVars
  /\ UNCHANGED termVars

\* The OS starts to deny the governor's queries of a process (the process
\* changed credentials); only find_targets queries processes.
EnvHide(p) ==
  /\ pc \in {"ft_collect", "ft_prime", "ft_measure", "ft_build", "ft_cmdline"}
  /\ envLeft > 0
  /\ Exists(p)
  /\ ~ptable[p].hidden
  /\ ptable' = [ptable EXCEPT ![p].hidden = TRUE]
  /\ envLeft' = envLeft - 1
  /\ UNCHANGED <<args, pc>>
  /\ UNCHANGED findVars
  /\ UNCHANGED runVars
  /\ UNCHANGED termVars

\* Resident memory (MB) and CPU load (percent) of the modelled processes:
\* below, at and above the default memory threshold of run(), and below and
\* above its default CPU threshold.
RssVals == {100, 400, 500}
CpuVals == {10, 60}
Least(S) == CHOOSE x \in S : \A y \in S : x <= y
Most(S)  == CHOOSE x \in S : \A y \in S : x >= y

\* A new process is given pid p (whose previous holder, if any, has exited).
EnvSpawn(p, n) ==
  /\ Busy
  /\ envLeft > 0
  /\ LET base == IF Exists(p) THEN Without(p) ELSE ptable
         new  == [name |-> n, username |-> current_user, ppid |-> InitPid,
                  gen |-> MaxEnv - envLeft + 1, rss_mb |-> Most(RssVals), cpu |-> Least(CpuVals),
                  hidden |-> FALSE, cmdline |-> Argv(n)]
     IN  ptable' = [q \in DOMAIN base \cup {p} |-> IF q = p THEN new ELSE base[q]]
  /\ envLeft' = envLeft - 1
  /\ UNCHANGED <<args, pc>>
  /\ UNCHANGED findVars
  /\ UNCHANGED runVars
  /\ UNCHANGED termVars

\* ------------------------------------------------------------ initial states
N_systemd == <<"s","y","s","t","e","m","d">>
N_genesis == <<"g","e","n","e","s","i","s">>

InitProc == [name |-> N_systemd, username |-> other_user, ppid |-> 0, gen |-> 0,
             rss_mb |-> Least(RssVals), cpu |-> Least(CpuVals), hidden |-> FALSE,
             cmdline |-> Argv(N_systemd)]

SelfProc(parent) == [name |-> N_genesis, username |-> current_user, ppid |-> parent, gen |-> 0,
                     rss_mb |-> Least(RssVals), cpu |-> Least(CpuVals), hidden |-> FALSE,
                     cmdline |-> Argv(N_genesis)]

\* The machine runs init, the governor and the first k other pids, k <= n.
Population(n) == {{p \in UserPids : p <= top} : top \in SelfPid..(SelfPid + n)}

\* The process trees over the processes U: every process is a child of init or
\* of a process with a lower pid; the governor is a child of init or of the
\* first other process.
Shapes(U) ==
  {f \in [U \cup {SelfPid} -> Pids] :
     /\ \A p \in U : f[p] = InitPid \/ (f[p] \in U /\ f[p] < p)
     /\ f[SelfPid] = InitPid \/ (U # {} /\ f[SelfPid] = Least(U))}

\* What sets one process apart from a large idle application of the invoking
\* user: a protected name, another owner, a small footprint, or another owner
\* and queries the OS denies.
Oddities == {"none", "safe_name", "foreign", "small", "hidden"}

UserProc(parent, odd) ==
  [name     |-> IF odd = "safe_name" THEN N_bash ELSE N_app,
   username |-> IF odd \in {"foreign", "hidden"} THEN other_user ELSE current_user,
   ppid     |-> parent,
   gen      |-> 0,
   rss_mb   |-> IF odd = "small" THEN Least(RssVals) ELSE Most(RssVals),
   cpu      |-> Least(CpuVals),
   hidden   |-> odd = "hidden",
   cmdline  |-> Argv(IF odd = "safe_name" THEN N_bash ELSE N_app)]

\* The tables of at most n other processes, at most one of them odd.
Tables(n) ==
  UNION {
    {[p \in U \cup ALWAYS_SAFE_PIDS |->
        IF p = InitPid THEN InitProc
        ELSE IF p = SelfPid THEN SelfProc(shape[SelfPid])
        ELSE UserProc(shape[p], IF p = who THEN odd ELSE "none")] :
       shape \in Shapes(U), who \in U, odd \in Oddities} \cup
    {[p \in ALWAYS_SAFE_PIDS |-> IF p = InitPid THEN InitProc ELSE SelfProc(InitPid)]}
    : U \in Population(n)}

\* The arguments genesis.py hands to run(): the defaults, with every flag either way.
RunArgs ==
  [dry_run : BOOLEAN, scope : {"user", "all"}, mem_threshold_mb : {400},
   cpu_threshold : {50}, limit : {15}, verbose : BOOLEAN, fast : BOOLEAN]

InitRest ==
  /\ listing = <<>>
  /\ candidate_procs = <<>>
  /\ alive_procs = <<>>
  /\ cpu_map = <<>>
  /\ sleeps = 0
  /\ pending = <<>>
  /\ targets = <<>>
  /\ confirm = [asked |-> FALSE, answer |-> FALSE]
  /\ ti = 1
  /\ terminated_count = 0
  /\ output = <<>>
  /\ retcode = -1
  /\ processed = <<>>
  /\ tproc = NoHandle
  /\ children = <<>>
  /\ alive = <<>>
  /\ ret = NoResult
  /\ signals = <<>>
  /\ delivered = {}
  /\ calls = 0
  /\ tree = <<>>
  /\ gone = {}
  /\ sig_failed = {}
  /\ kill_tried = {}
  /\ still_alive = {}

Init ==
  /\ ptable \in Tables(MaxRunProcs)
  /\ envLeft = MaxEnv
  /\ args \in RunArgs
  /\ pc = "run_start"
  /\ InitRest

Next ==
  \/ Run_Start
  \/ FT_List
  \/ FT_Collect
  \/ FT_Prime
  \/ FT_Sleep
  \/ FT_Measure
  \/ FT_Build
  \/ FT_Cmdline
  \/ FT_Sort
  \/ Run_Check
  \/ Run_Confirm
  \/ Run_Finish
  \/ Run_Skip
  \/ Run_Call
  \/ TT_Resolve
  \/ TT_Children
  \/ TT_Terminate
  \/ TT_Wait
  \/ TT_Kill
  \/ TT_FinalWait
  \/ Run_Result
  \/ \E p \in UserPids : ProcDies(p)
  \/ \E p \in UserPids : EnvExit(p)
  \/ \E p \in UserPids, n \in EnvNames : EnvRename(p, n)
  \/ \E p \in UserPids, n \in EnvNames : EnvSpawn(p, n)
  \/ \E p \in UserPids : EnvHide(p)

\* One run of the governor on a machine whose other processes keep running.
Spec == Init /\ [][Next]_vars

\* The steps of the governor itself: one thread, every call it makes is a
\* bounded one (time.sleep, wait_procs with a timeout), so it keeps stepping.
GovNext ==
  \/ Run_Start
  \/ FT_List
  \/ FT_Collect
  \/ FT_Prime
  \/ FT_Sleep
  \/ FT_Measure
  \/ FT_Build
  \/ FT_Cmdline
  \/ FT_Sort
  \/ Run_Check
  \/ Run_Confirm
  \/ Run_Finish
  \/ Run_Skip
  \/ Run_Call
  \/ TT_Resolve
  \/ TT_Children
  \/ TT_Terminate
  \/ TT_Wait
  \/ TT_Kill
  \/ TT_FinalWait
  \/ Run_Result

\* The same run, where the governor is never stopped for ever; nothing is
\* asked of the other processes, which may or may not exit.
SpecFair == Spec /\ WF_vars(GovNext)

\* ------------------------------------- _terminate_process_tree, called alone
\* run() calls the executor for an unprotected Target that find_targets built
\* from the table; the table may have changed since.
InitExec ==
  /\ ptable \in Tables(MaxPid - SelfPid)
  /\ envLeft = MaxEnv
  /\ args = [dry_run |-> FALSE, scope |-> "all", mem_threshold_mb |-> 400,
             cpu_threshold |-> 50, limit |-> 15, verbose |-> TRUE, fast |-> TRUE]
  /\ pc = "tt_resolve"
  /\ listing = <<>>
  /\ candidate_procs = <<>>
  /\ alive_procs = <<>>
  /\ cpu_map = <<>>
  /\ sleeps = 0
  /\ \E pid \in DOMAIN ptable :
       /\ IsCandidate(Handle(pid))
       /\ Qualifies(GetMemoryMb(Handle(pid)), CpuOf(Handle(pid)))
       /\ targets = <<Target(MakeTarget(Handle(pid)), GetCmdline(pid))>>
  /\ pending = <<>>
  /\ confirm = [asked |-> TRUE, answer |-> TRUE]
  /\ ti = 1
  /\ terminated_count = 0
  /\ output = <<>>
  /\ retcode = -1
  /\ processed = <<[pid |-> targets[1].pid, how |-> "called"]>>
  /\ tproc = NoHandle
  /\ children = <<>>
  /\ alive = <<>>
  /\ ret = NoResult
  /\ signals = <<>>
  /\ delivered = {}
  /\ calls = 1
  /\ tree = <<>>
  /\ gone = {}
  /\ sig_failed = {}
  /\ kill_tried = {}
  /\ still_alive = {}

NextExec ==
  \/ TT_Resolve
  \/ TT_Children
  \/ TT_Terminate
  \/ TT_Wait
  \/ TT_Kill
  \/ TT_FinalWait
  \/ \E p \in UserPids : ProcDies(p)
  \/ \E p \in UserPids : EnvExit(p)
  \/ \E p \in UserPids, n \in EnvNames : EnvRename(p, n)
  \/ \E p \in UserPids, n \in EnvNames : EnvSpawn(p, n)

\* One call of _terminate_process_tree, up to its return.
SpecExec == InitExec /\ [][NextExec]_vars

\* ------------------------------------------------- find_targets, called alone
\* Every table of MaxFindProcs processes besides init and the governor, each
\* with a plain or a protected name, either owner, and memory and load below
\* or above the default thresholds.
FindPids == {p \in UserPids : p <= SelfPid + MaxFindProcs}

FindTables ==
  {[p \in ALWAYS_SAFE_PIDS \cup FindPids |->
      IF p = InitPid THEN InitProc
      ELSE IF p = SelfPid THEN SelfProc(InitPid)
      ELSE [name |-> nm[p], username |-> us[p], ppid |-> InitPid, gen |-> 0,
            rss_mb |-> rs[p], cpu |-> cp[p], hidden |-> FALSE, cmdline |-> Argv(nm[p])]] :
     nm \in [FindPids -> EnvNames], us \in [FindPids -> {current_user, other_user}],
     rs \in [FindPids -> RssVals], cp \in [FindPids -> CpuVals]}

\* The defaults of the thresholds and of the limit, and the values that select
\* everything and that truncate; --limit takes any integer.
FindArgs ==
  [dry_run : {TRUE}, scope : {"user", "all"}, mem_threshold_mb : {0, 400},
   cpu_threshold : {0, 50}, limit : {-1, 1, 15}, verbose : {TRUE}, fast : BOOLEAN]

InitFind ==
  /\ ptable \in FindTables
  /\ envLeft = 0
  /\ args \in FindArgs
  /\ pc = "ft_list"
  /\ InitRest

NextFind ==
  \/ FT_List
  \/ FT_Collect
  \/ FT_Prime
  \/ FT_Sleep
  \/ FT_Measure
  \/ FT_Build
  \/ FT_Cmdline
  \/ FT_Sort

\* One call of find_targets on a given process table, up to its return.
SpecFind == InitFind /\ [][NextFind]_vars

\* ------------------------------- find_targets over names and command lines
\* One process besides init and the governor, whose name and argument vector
\* range over the shapes the classifier and _get_cmdline tell apart; init's
\* own name is a safe one or not (a container's pid 1 is any program).
N_Bash    == <<"B","a","s","h">>
N_kthread == <<"[","k","]">>

AttrNames ==
  {N_app, N_bash, N_Bash, <<" ">> \o N_bash \o <<" ">>, N_kthread, N_kthread \o <<"\n">>,
   <<"[","k">>, <<"k","]">>, <<>>, Repeat("n", MaxNameLen)}

\* No arguments (a kernel thread, a zombie), one empty argument, a short
\* vector, and vectors whose joined length is the cut, or one more.
AttrArgvs ==
  {<<>>, <<<<>>>>, Argv(N_app), <<Repeat("a", CmdlineMax)>>,
   <<Repeat("a", CmdlineMax - 100), Repeat("b", 100)>>, <<Repeat("a", CmdlineMax + 1)>>}

AttrPid == SelfPid + 1

AttrTables ==
  {[p \in ALWAYS_SAFE_PIDS \cup {AttrPid} |->
      IF p = InitPid THEN [InitProc EXCEPT !.name = initname, !.rss_mb = Most(RssVals)]
      ELSE IF p = SelfPid THEN SelfProc(InitPid)
      ELSE [name |-> nm, username |-> us, ppid |-> InitPid, gen |-> 0,
            rss_mb |-> Most(RssVals), cpu |-> Least(CpuVals), hidden |-> hid,
            cmdline |-> argv]] :
     initname \in {N_systemd, N_app}, nm \in AttrNames, argv \in AttrArgvs,
     us \in {current_user, other_user}, hid \in BOOLEAN}

AttrArgs ==
  [dry_run : {TRUE}, scope : {"user", "all"}, mem_threshold_mb : {400},
   cpu_threshold : {50}, limit : {15}, verbose : {TRUE}, fast : {TRUE}]

InitAttrs ==
  /\ ptable \in AttrTables
  /\ envLeft = 0
  /\ args \in AttrArgs
  /\ pc = "ft_list"
  /\ InitRest

NextAttrs ==
  \/ FT_List
  \/ FT_Collect
  \/ FT_Build
  \/ FT_Cmdline
  \/ FT_Sort

\* One call of find_targets in fast mode on such a table.
SpecAttrs == InitAttrs /\ [][NextAttrs]_vars

\* ===================================================================== claims
IsProtectedNow(pid, name) == pid \in ALWAYS_SAFE_PIDS \/ name \in SAFE_PROC_NAMES

C2_NoProtectedSignalled ==
  \A s \in delivered : ~IsProtectedNow(s.pid, s.name)

\* C3: inside the executor no descendant that is protected by pid or by name
\* is sent the terminate or the kill signal.
C3_NoSafeDescendantSignalled ==
  \A i \in DOMAIN signals :
    signals[i].role = "child" =>
      /\ signals[i].pid \notin ALWAYS_SAFE_PIDS
      /\ signals[i].name \notin SAFE_PROC_NAMES

\* C4: with dry_run = false, a signal is sent only after the confirmation
\* collaborator was asked and said yes, and after a no the run is over with no
\* signal sent.
C4_SignalsOnlyAfterYes ==
  /\ (~args.dry_run /\ (delivered # {} \/ calls > 0)) => (confirm.asked /\ confirm.answer)
  /\ (confirm.asked /\ ~confirm.answer) => (delivered = {} /\ pc = "done")

\* C5: with dry_run = true the executor is never called, no signal is sent and
\* the confirmation collaborator is not consulted.
C5_DryRunNoMutation ==
  args.dry_run =>
    /\ calls = 0
    /\ delivered = {}
    /\ ~confirm.asked
    /\ pc \notin {"run_confirm", "run_loop", "tt_resolve", "tt_terminate", "tt_wait",
                  "tt_kill", "tt_final_wait", "run_result"}

\* A dry run that found Targets has returned.
C5_Witness == args.dry_run /\ pc = "done" /\ targets # <<>> /\ retcode = 0

\* C6: called on a pid that has no live process, the executor returns
\* (true, "already terminated") and issues no signal.
C6_GoneIsNoOp ==
  [][(pc = "tt_resolve" /\ pc' # "tt_resolve" /\ ~Exists(targets[ti].pid)) =>
       /\ pc' = "run_result"
       /\ ret' = [success |-> TRUE, msg |-> "already terminated"]
       /\ signals' = signals
       /\ delivered' = delivered
       /\ kill_tried' = kill_tried]_vars

\* The executor returned "already terminated" for a Target that had exited.
C6_Witness ==
  /\ pc = "run_result"
  /\ ret.msg = "already terminated"
  /\ ~Exists(targets[ti].pid)
  /\ signals = <<>>

\* C7: the executor returns success = false exactly when issuing a signal to
\* the target failed.
C7_FailureIffSignalError ==
  pc = "run_result" => (ret.success = FALSE <=> tproc \in sig_failed)

\* C8: a Target whose tree outlived the forced-kill wait is reported with a
\* failure line, not a success line.
C8_StillAliveIsFailureLine ==
  \A i \in DOMAIN output :
    (output[i].pid \in still_alive /\ output[i].kind # "skip") => output[i].kind = "fail"

\* C9: within a call, no process is signalled after one of its ancestors in the
\* target's tree got the same kind of signal.
C9_DescendantsFirst ==
  \A i, j \in DOMAIN signals :
    (i < j /\ signals[i].kind = signals[j].kind) =>
      signals[i].pid \notin Anc(tree, signals[j].pid, MaxPid)

\* C10: kill() is invoked, and the kill signal delivered, only once the graceful
\* wait is over and only for processes that were alive when it ended.
C10_KillOnlySurvivors ==
  /\ (kill_tried # {} \/ \E i \in DOMAIN signals : signals[i].kind = "KILL")
       => pc \in {"tt_final_wait", "run_result"}
  /\ \A h \in kill_tried : h \notin gone /\ h \in SeqToSet(all_procs)
  /\ \A i \in DOMAIN signals :
       signals[i].kind = "KILL" =>
         /\ [pid |-> signals[i].pid, gen |-> signals[i].gen] \notin gone
         /\ \A j \in DOMAIN signals : signals[j].kind = "TERM" => j < i

\* A parent and two children were signalled; the parent and one child exited
\* during the graceful wait and only the other child was killed.
C10_Witness ==
  /\ pc = "run_result"
  /\ Len(children) = 2
  /\ \A i \in DOMAIN children : tree[children[i].pid] = tproc.pid
  /\ tproc \in gone
  /\ \E i, j \in DOMAIN children :
       /\ i # j
       /\ children[i] \in gone
       /\ kill_tried = {children[j]}
       /\ \E k \in DOMAIN signals :
            signals[k].kind = "KILL" /\ signals[k].pid = children[j].pid

\* Is the process with pid p, as the table shows it, unprotected and within
\* the scope asked for?
IsEligibleNow(p) ==
  /\ ~IsProtectedNow(p, Strip(ptable[p].name))
  /\ ~IsBracketed(Strip(ptable[p].name))
  /\ ~ptable[p].hidden
  /\ args.scope = "user" => ptable[p].username = current_user

InTargets(p) == \E j \in DOMAIN targets : targets[j].pid = p

\* The CPU percentage find_targets works with: the load of the process, and 0
\* in fast mode, where it is not measured.
CpuSeen(p) == IF args.fast THEN 0 ELSE ptable[p].cpu

\* C11: an unprotected, in-scope, readable process is among the qualifying
\* Targets, before sorting and truncation, exactly when its memory is at least
\* the memory threshold or its CPU percentage is at least the CPU threshold.
C11_QualifiesIffOverThreshold ==
  pc = "ft_sort" =>
    \A p \in DOMAIN ptable :
      IsEligibleNow(p) =>
        (InTargets(p) <=> (\/ ptable[p].rss_mb >= args.mem_threshold_mb
                           \/ CpuSeen(p) >= args.cpu_threshold))

\* Under thresholds (400, 50), with CPU measured: a process of exactly 400 MB
\* and 10% CPU qualified by memory alone, and one of 100 MB and 10% did not.
C11_Witness ==
  /\ pc = "ft_sort"
  /\ ~args.fast
  /\ args.mem_threshold_mb = 400 /\ args.cpu_threshold = 50
  /\ \E p, q \in DOMAIN ptable :
       /\ IsEligibleNow(p) /\ ptable[p].rss_mb = 400 /\ ptable[p].cpu = 10 /\ InTargets(p)
       /\ IsEligibleNow(q) /\ ptable[q].rss_mb = 100 /\ ptable[q].cpu = 10 /\ ~InTargets(q)

\* C12: whatever integer the limit is, the list find_targets returns is no
\* longer than the limit.
C12_LengthWithinLimit ==
  pc = "ft_return" => Len(targets) <= args.limit

\* C13: the returned list is in non-increasing order of score, and Targets of
\* equal score are in the order in which their processes were enumerated.
PosInEnumeration(p) == CHOOSE i \in DOMAIN candidate_procs : candidate_procs[i].pid = p

C13_SortedAndStable ==
  pc = "ft_return" =>
    \A i, j \in DOMAIN targets :
      i < j =>
        /\ ScoreX2(targets[i]) >= ScoreX2(targets[j])
        /\ ScoreX2(targets[i]) = ScoreX2(targets[j])
             => PosInEnumeration(targets[i].pid) < PosInEnumeration(targets[j].pid)

\* Two Targets of equal score were returned.
C13_Witness ==
  /\ pc = "ft_return"
  /\ \E i, j \in DOMAIN targets :
       /\ i < j
       /\ ScoreX2(targets[i]) = ScoreX2(targets[j])
       /\ targets[i].pid < targets[j].pid

\* C14: the score of a Target is cpu * 2.0 + rss_mb * 0.5 (here doubled), so it
\* does not decrease when either grows; (cpu 60, rss 100) scores 170 and
\* (cpu 10, rss 500) scores 270, and the latter is ranked before the former.
C14_ScoreFormula ==
  /\ ScoreX2([cpu |-> 60, rss_mb |-> 100]) = 2 * 170
  /\ ScoreX2([cpu |-> 10, rss_mb |-> 500]) = 2 * 270
  /\ pc = "ft_return" =>
       \A i, j \in DOMAIN targets :
         /\ ScoreX2(targets[i]) = 2 * (2 * targets[i].cpu) + targets[i].rss_mb
         /\ (targets[i].cpu >= targets[j].cpu /\ targets[i].rss_mb >= targets[j].rss_mb)
              => ScoreX2(targets[i]) >= ScoreX2(targets[j])
         /\ (/\ targets[i].cpu = 10 /\ targets[i].rss_mb = 500
             /\ targets[j].cpu = 60 /\ targets[j].rss_mb = 100) => i < j

\* A list with a (cpu 10, rss 500) Target ahead of a (cpu 60, rss 100) Target
\* was returned.
C14_Witness ==
  /\ pc = "ft_return"
  /\ \E i, j \in DOMAIN targets :
       /\ i < j
       /\ targets[i].cpu = 10 /\ targets[i].rss_mb = 500
       /\ targets[j].cpu = 60 /\ targets[j].rss_mb = 100

\* C15: in fast mode find_targets never sleeps and never reads a CPU value,
\* and every Target it builds or returns carries cpu = 0.
C15_FastNeverSamples ==
  args.fast =>
    /\ sleeps = 0
    /\ pc \notin {"ft_prime", "ft_sleep", "ft_measure"}
    /\ alive_procs = <<>>
    /\ cpu_map = <<>>
    /\ pc \in {"ft_sort", "ft_return"} => \A i \in DOMAIN targets : targets[i].cpu = 0

\* Fast mode returned a Target for a process that is in fact at 60% CPU.
C15_Witness ==
  /\ args.fast
  /\ pc = "ft_return"
  /\ \E i \in DOMAIN targets :
       /\ ptable[targets[i].pid].cpu = 60
       /\ targets[i].cpu = 0

\* C16: whatever the number of candidates, the sampler sleeps exactly once:
\* no sleep has been made while the priming reads are made, the measuring reads
\* are made after the one sleep, and no further sleep follows.
C16_OneSharedSleep ==
  ~args.fast =>
    /\ pc \in {"ft_collect", "ft_prime", "ft_sleep"} => sleeps = 0 /\ cpu_map = <<>>
    /\ pc \in {"ft_collect", "ft_prime"} => alive_procs = <<>>
    /\ pc \in {"ft_measure", "ft_build", "ft_sort", "ft_return"} => sleeps = 1
    /\ cpu_map # <<>> => sleeps = 1

\* A batch of as many candidates as the table can hold was sampled with one sleep.
C16_Witness ==
  /\ ~args.fast
  /\ pc = "ft_return"
  /\ Len(candidate_procs) = MaxFindProcs
  /\ Len(alive_procs) = MaxFindProcs
  /\ DOMAIN cpu_map = {candidate_procs[i].pid : i \in DOMAIN candidate_procs}
  /\ sleeps = 1

\* The pids of the records of a list.
PidsOf(recs) == {recs[i].pid : i \in DOMAIN recs}

\* Was a handle for pid p collected by the first loop?
IsCandidatePid(p) == \E i \in DOMAIN candidate_procs : candidate_procs[i].pid = p

\* C17: a candidate whose CPU read fails at priming, or after the sleep at the
\* second read, goes into target building with CPU 0; the sampler raises
\* nothing, and the candidates that can be read get their measured value and
\* are Targets when they qualify.
C17_UnsampledIsZero ==
  /\ [][(pc \in {"ft_prime", "ft_sleep", "ft_measure"}) => (pc' # "crashed")]_vars
  /\ []((~args.fast /\ pc = "ft_build") =>
          \A i \in DOMAIN candidate_procs :
            LET h == candidate_procs[i] IN
              (\A k \in DOMAIN alive_procs : alive_procs[k] # h) => CpuOf(h) = 0)
  /\ [][(~args.fast /\ pc = "ft_build" /\ pc' = "ft_cmdline") =>
          \A p \in DOMAIN ptable :
            (/\ IsCandidatePid(p)
             /\ ReadRaises(p) = "none"
             /\ ptable[p].rss_mb >= args.mem_threshold_mb) => p \in PidsOf(pending')]_vars
  /\ [][(pc = "ft_prime" /\ pc' # "ft_prime") =>
          \A i \in DOMAIN candidate_procs :
            (ReadRaises(candidate_procs[i].pid) = "none")
              <=> (\E k \in DOMAIN alive_procs' : alive_procs'[k] = candidate_procs[i])]_vars
  /\ [][(pc = "ft_measure" /\ pc' # "ft_measure") =>
          \A k \in DOMAIN alive_procs :
            LET p == alive_procs[k].pid IN
              /\ p \in DOMAIN cpu_map'
              /\ ReadRaises(p) # "none" => cpu_map'[p] = 0
              /\ ReadRaises(p) = "none" => cpu_map'[p] = ptable[p].cpu]_vars

\* A candidate that was primed could not be read at the second read and was
\* recorded with 0, and a candidate that could be read was measured and
\* returned as a Target with its measurement.
C17_Witness ==
  /\ ~args.fast
  /\ pc = "ft_return"
  /\ \E p \in DOMAIN cpu_map : cpu_map[p] = 0
  /\ \E j \in DOMAIN targets :
       /\ targets[j].pid \in DOMAIN cpu_map
       /\ cpu_map[targets[j].pid] = Least(CpuVals)
       /\ targets[j].cpu = Least(CpuVals)

\* C18: under scope "user" every Target is owned by the invoking user; under
\* scope "all" a process of another user that is unprotected and qualifies is
\* among the qualifying Targets.
C18_ScopeFiltersByOwner ==
  /\ (args.scope = "user" /\ pc \in {"ft_sort", "ft_return"}) =>
        \A i \in DOMAIN targets : targets[i].username = current_user
  /\ (args.scope = "all" /\ pc = "ft_sort") =>
        \A p \in DOMAIN ptable :
          (/\ ptable[p].username # current_user
           /\ IsEligibleNow(p)
           /\ ptable[p].rss_mb >= args.mem_threshold_mb) => InTargets(p)

\* Under scope "user" a list was returned that leaves out a qualifying,
\* unprotected process of another user.
C18_Witness ==
  /\ args.scope = "user"
  /\ pc = "ft_return"
  /\ targets # <<>>
  /\ args.limit >= Cardinality(DOMAIN ptable)
  /\ \E p \in DOMAIN ptable :
       /\ ptable[p].username # current_user
       /\ ~IsProtectedNow(p, Strip(ptable[p].name))
       /\ ptable[p].rss_mb >= args.mem_threshold_mb
       /\ ~InTargets(p)

\* C19: run() returns 0 on every path that completes; when nothing exceeds
\* the thresholds it asks nothing and signals nothing.
C19_AlwaysReturnsZero ==
  /\ pc = "done" => retcode = 0
  /\ (pc = "done" /\ targets = <<>>) => (~confirm.asked /\ delivered = {} /\ calls = 0)

\* run() found Targets, asked, was told no, and returned 0.
C19_Witness ==
  /\ pc = "done"
  /\ retcode = 0
  /\ targets # <<>>
  /\ confirm.asked /\ ~confirm.answer

\* C20: no NoSuchProcess or AccessDenied raised by a query or a signal leaves
\* find_targets, _terminate_process_tree or run().
C20_NoFaultEscapes == pc # "crashed"

\* A descendant's terminate() raised AccessDenied and the call went on to wait.
C20_Witness ==
  /\ pc = "tt_wait"
  /\ \E h \in sig_failed : h # tproc

\* C21: once the loop of run() starts, the Targets are processed one by one
\* in list order, each once (skipped or handed to the executor), and the loop
\* gets through all of them whatever the earlier calls returned.
C21_EveryTargetProcessedOnce ==
  /\ [](/\ Len(processed) <= Len(targets)
        /\ \A i \in 1..Len(processed) : processed[i].pid = targets[i].pid
        /\ (pc = "done" /\ processed # <<>>) => Len(processed) = Len(targets))
  /\ (pc = "run_loop") ~> (pc = "done" /\ Len(processed) = Len(targets))

\* The loop finished a list of two whose first Target had already terminated.
C21_Witness ==
  /\ pc = "done"
  /\ Len(processed) = 2
  /\ processed[1].how = "called"
  /\ Len(output) >= 1
  /\ output[1].msg = "already terminated"

\* The Targets the loop handed to the executor so far.
CalledSoFar == {i \in 1..Len(processed) : processed[i].how = "called"}

\* C25: the executor is called for a Target only after the re-check: a Target
\* whose recorded name is a safe name or whose pid is a safe pid is never
\* handed to it, and a skipped Target is not counted as terminated.
C25_RecheckBeforeCall ==
  /\ \A i \in 1..Len(processed) :
       (targets[i].name \in SAFE_PROC_NAMES \/ targets[i].pid \in ALWAYS_SAFE_PIDS)
         => processed[i].how = "skipped"
  /\ calls = Cardinality(CalledSoFar)
  /\ terminated_count <= Cardinality(CalledSoFar)

\* A Target recorded under a safe name was skipped, nothing was counted.
C25_Witness ==
  /\ pc = "done"
  /\ \E i \in 1..Len(processed) :
       /\ processed[i].how = "skipped"
       /\ targets[i].name \in SAFE_PROC_NAMES
  /\ terminated_count < Len(targets)

\* The statements of _terminate_process_tree in program order; 7 is its return.
StepNo(at) ==
  CASE at = "tt_resolve"    -> 1
    [] at = "tt_children"   -> 2
    [] at = "tt_terminate"  -> 3
    [] at = "tt_wait"       -> 4
    [] at = "tt_kill"       -> 5
    [] at = "tt_final_wait" -> 6
    [] OTHER                -> 7

InExecutor == StepNo(pc) < 7

\* C26: a call of the executor only moves forward through its statements, so
\* it makes at most one graceful wait and at most one forced-kill wait and
\* repeats nothing; it returns whether or not the processes ever exit, and
\* so run() returns.
C26_ExecutorReturns ==
  /\ [][(InExecutor /\ pc' # pc) => StepNo(pc') > StepNo(pc)]_vars
  /\ [][(pc' = "tt_wait" /\ pc # "tt_wait") => pc = "tt_terminate"]_vars
  /\ [][(pc' = "tt_final_wait" /\ pc # "tt_final_wait") => pc = "tt_kill"]_vars
  /\ (pc = "tt_resolve") ~> (pc = "run_result")
  /\ <>(pc = "done")

\* The call returned "terminated" although the target outlived both waits.
C26_Witness ==
  /\ pc = "run_result"
  /\ ret = Terminated
  /\ tproc.pid \in still_alive
  /\ IsRunning(tproc)

\* C22: when the first loop classifies a listed process whose name cannot be
\* read (it exited since it was listed, or access is denied), the classifier
\* answers protected and the process is not appended to candidate_procs.
C22_UnreadableIsProtected ==
  [][(pc = "ft_collect" /\ pc' # pc) =>
       \A i \in DOMAIN listing :
          (/\ listing[i].pid \notin ALWAYS_SAFE_PIDS
           /\ ReadRaises(listing[i].pid) \in {"NoSuchProcess", "AccessDenied"})
            => /\ IsSafeProcess(listing[i])
               /\ \A j \in DOMAIN candidate_procs' : candidate_procs'[j] # listing[i]]_vars

\* The first loop ran, under scope "all", over a table that held from the start
\* an inaccessible process with an unprotected name and memory over the
\* threshold; the process is not a candidate.
C22_Witness ==
  /\ pc \in {"ft_prime", "ft_build"}
  /\ envLeft = MaxEnv
  /\ args.scope = "all"
  /\ \E i \in DOMAIN listing :
       /\ Exists(listing[i].pid)
       /\ ptable[listing[i].pid].hidden
       /\ Strip(ptable[listing[i].pid].name) \notin SAFE_PROC_NAMES
       /\ ptable[listing[i].pid].rss_mb >= args.mem_threshold_mb
       /\ \A j \in DOMAIN candidate_procs : candidate_procs[j] # listing[i]

\* C23: a candidate whose process has exited or become inaccessible when the
\* second loop reads its memory, name and username, or its command line, gets
\* no Target; the other processes get theirs.
C23_UnreadableIsDropped ==
  /\ [][(pc = "ft_build" /\ pc' = "ft_cmdline") =>
          \A i \in DOMAIN candidate_procs :
             ReadRaises(candidate_procs[i].pid) # "none"
               => candidate_procs[i].pid \notin PidsOf(pending')]_vars
  /\ [][(pc = "ft_cmdline" /\ pc' = "ft_sort") =>
          \A i \in DOMAIN pending :
             IF ReadRaises(pending[i].pid) # "none"
             THEN pending[i].pid \notin PidsOf(targets')
             ELSE pending[i].pid \in PidsOf(targets')]_vars

\* The three rules on a pid and a name.
ProtectedBy(pid, name) ==
  \/ pid \in ALWAYS_SAFE_PIDS
  \/ name \in SAFE_PROC_NAMES
  \/ (name # <<>> /\ Head(name) = "[" /\ name[Len(name)] = "]")

\* C24: a process whose name is readable is classified protected exactly when
\* its pid is a safe pid, or its name is exactly a safe name, or its name
\* begins with "[" and ends with "]"; a safe pid is protected whatever its name.
C24_ClassifierIff ==
  [][(pc = "ft_collect" /\ pc' # pc) =>
       \A i \in DOMAIN listing :
          ReadRaises(listing[i].pid) = "none" =>
            LET prot == ProtectedBy(listing[i].pid, ptable[listing[i].pid].name)
            IN  /\ IsSafeProcess(listing[i]) <=> prot
                /\ args.scope = "all" =>
                     ((listing[i] \in SeqToSet(candidate_procs')) <=> ~prot)]_vars

\* C24, amended: the same, where the name is taken with its leading and
\* trailing whitespace removed.
C24_ClassifierIffStripped ==
  [][(pc = "ft_collect" /\ pc' # pc) =>
       \A i \in DOMAIN listing :
          ReadRaises(listing[i].pid) = "none" =>
            LET prot == ProtectedBy(listing[i].pid, Strip(ptable[listing[i].pid].name))
            IN  /\ IsSafeProcess(listing[i]) <=> prot
                /\ args.scope = "all" =>
                     ((listing[i] \in SeqToSet(candidate_procs')) <=> ~prot)]_vars

\* Under scope "all" the first loop ran over a table where init carries an
\* unprotected name and another readable process is named " bash ": neither
\* is a candidate.
C24_Witness ==
  /\ pc = "ft_build"
  /\ args.scope = "all"
  /\ ptable[InitPid].name = N_app
  /\ ptable[AttrPid].name = <<" ">> \o N_bash \o <<" ">>
  /\ ~ptable[AttrPid].hidden
  /\ Len(listing) = 3
  /\ candidate_procs = <<>>

\* C28: the command-line field of every Target is at most 300 characters
\* long, also when the argument vector is empty and the field is the name.
C28_CmdlineAtMost300 ==
  \A i \in DOMAIN targets : Len(targets[i].cmdline) <= 300

\* find_targets returned a Target whose arguments join to 301 characters and
\* whose field holds the first 300.
C28_Witness ==
  /\ pc = "ft_return"
  /\ \E i \in DOMAIN targets :
       /\ Len(Join(ptable[targets[i].pid].cmdline)) = 301
       /\ Len(targets[i].cmdline) = 300
       /\ targets[i].cmdline = SubSeq(Join(ptable[targets[i].pid].cmdline), 1, 300)

\* C29: for a limit L >= 0, the step that ranks and cuts the list of the
\* qualifying Targets returns min(L, their number) of them, and each one
\* returned scores at least as much as each one left out.
C29_TruncationKeepsTop ==
  [][(pc = "ft_sort" /\ pc' = "ft_return" /\ args.limit >= 0) =>
       /\ Len(targets') = (IF args.limit < Len(targets) THEN args.limit ELSE Len(targets))
       /\ PidsOf(targets') \subseteq PidsOf(targets)
       /\ \A i \in DOMAIN targets', j \in DOMAIN targets :
            targets[j].pid \notin PidsOf(targets')
              => 4 * targets'[i].cpu + targets'[i].rss_mb >= 4 * targets[j].cpu + targets[j].rss_mb]_vars

\* Two processes qualified, the limit was 1, and the one returned scores
\* strictly more than the one left out, which was enumerated first.
C29_Witness ==
  /\ pc = "ft_return"
  /\ args.limit = 1
  /\ Len(pending) = 2
  /\ Len(targets) = 1
  /\ targets[1].pid = pending[2].pid
  /\ 4 * targets[1].cpu + targets[1].rss_mb > 4 * pending[1].cpu + pending[1].rss_mb

\* The control points of find_targets and of the display that follows it.
InDiscovery ==
  pc \in {"run_start", "ft_list", "ft_collect", "ft_prime", "ft_sleep", "ft_measure",
          "ft_build", "ft_cmdline", "ft_sort", "ft_return"}

\* C27: no step of the discovery phase issues a signal or changes the process
\* table; signals are issued by the two signalling loops of the executor only.
C27_DiscoveryIsReadOnly ==
  /\ [][InDiscovery => (delivered' = delivered /\ signals' = signals /\ calls' = calls)]_vars
  /\ [][(InDiscovery /\ pc' # pc) => ptable' = ptable]_vars
  /\ [][(delivered' # delivered) => pc \in {"tt_terminate", "tt_kill"}]_vars

\* find_targets sampled the CPU and returned Targets; nothing was signalled,
\* the executor was not called.
C27_Witness ==
  /\ pc = "ft_return"
  /\ ~args.fast
  /\ sleeps = 1
  /\ targets # <<>>
  /\ delivered = {}
  /\ signals = <<>>
  /\ calls = 0

\* C30: no signal is ever delivered to pid 1 or to the governor's own pid,
\* as a target or as a descendant of a target, by SIGTERM or by SIGKILL.
C30_NeverSignalsInitOrSelf ==
  \A s \in delivered : s.pid # InitPid /\ s.pid # SelfPid

\* A call on an ancestor of the governor returned: the governor was among the
\* descendants and among those still alive after the graceful wait, and
\* SIGKILL was sent to another process of the tree.
C30_Witness ==
  /\ pc = "run_result"
  /\ \E i \in DOMAIN children : children[i].pid = SelfPid
  /\ \E i \in DOMAIN alive : alive[i].pid = SelfPid
  /\ \E s \in delivered : s.kind = "KILL"
====
